---- MODULE Spec2Model ----
(***************************************************************************)
(* A model of the keyboard input dispatcher of fish (src/input.cpp): the   *)
(* binding table (input_mapping_add / erase / get / get_names), the        *)
(* matcher (input_mapping_is_match), the dispatcher                        *)
(* (input_mapping_execute), and the read loop (input_readch).              *)
(*                                                                         *)
(* Wide characters are integers.  The push-back stack of the low-level     *)
(* reader is `lookahead` (head = next value read); `terminal` is the       *)
(* input the terminal has pending; once both are empty the reader          *)
(* delivers R_EOF.                                                         *)
(***************************************************************************)
EXTENDS Integers, Sequences, FiniteSets, TLC

VARIABLES
    mapping_list,               \* static std::vector<input_mapping_t> mapping_list
    s_last_order,               \* s_last_input_mapping_specification_order
    bind_mode,                  \* the shell variable fish_bind_mode
    lookahead,                  \* push-back stack of the reader
    terminal,                   \* characters the terminal has pending
    terminal_closed,            \* the reader has found the end of the input
    input_function_status,      \* static bool input_function_status
    input_function_args,        \* static wchar_t input_function_args[20]
    input_function_args_index,  \* static int input_function_args_index
    pc,                         \* "idle", or "readch" inside input_readch
    allow_commands,             \* the parameter of the running input_readch
    last,                       \* the last completed operation and its result
    log,                        \* what the running / last input_readch did
    is_init,                    \* static bool is_init
    terminfo_mappings           \* static std::vector<terminfo_mapping_t> terminfo_mappings

vars == << mapping_list, s_last_order, bind_mode, lookahead, terminal,
           terminal_closed,
           input_function_status, input_function_args,
           input_function_args_index, pc, allow_commands, last, log,
           is_init, terminfo_mappings >>

----------------------------------------------------------------------------
(* Bounds of the model *)

\* most bindings ever constructed: caps the specification_order counter, and
\* with it the size of the table
MaxOrder == 3
\* most characters pending on the terminal
MaxTerminal == 2
\* deepest push-back stack an explicit input_unreadch may build
MaxLookahead == 2
\* most runs of input_terminfo_init
MaxInit == 2
\* most arguments on the argument stack
MaxArgs == 3

----------------------------------------------------------------------------
(* Constants of the program *)

MAX_INPUT_FUNCTION_ARGS == 20

DEFAULT_BIND_MODE == "default"
\* a NULL mode pointer given to input_mapping_erase: any mode
NULL == "NULL"

\* the reserved range of internal codes
R_MIN == 57344
R_NULL == R_MIN
R_EOF == R_MIN + 1
R_BEGINNING_OF_LINE == R_NULL + 10

name_arr ==
    << "beginning-of-line", "end-of-line", "forward-char", "backward-char",
       "forward-word", "backward-word", "history-search-backward",
       "history-search-forward", "delete-char", "backward-delete-char",
       "kill-line", "yank", "yank-pop", "complete", "complete-and-search",
       "beginning-of-history", "end-of-history", "backward-kill-line",
       "kill-whole-line", "kill-word", "backward-kill-word",
       "backward-kill-path-component", "history-token-search-backward",
       "history-token-search-forward", "self-insert", "transpose-chars",
       "transpose-words", "upcase-word", "downcase-word", "capitalize-word",
       "vi-arg-digit", "vi-delete-to", "execute", "beginning-of-buffer",
       "end-of-buffer", "repaint", "force-repaint", "up-line", "down-line",
       "suppress-autosuggestion", "accept-autosuggestion", "begin-selection",
       "end-selection", "kill-selection", "forward-jump", "backward-jump",
       "and", "cancel" >>

\* code_arr[i]: the enumerators follow name_arr, one code per name
code_arr == [i \in 1..Len(name_arr) |-> R_BEGINNING_OF_LINE + (i - 1)]

R_MAX == code_arr[Len(code_arr)]

\* (wchar_t)-1, the "no such function" result of input_function_get_code
NO_CODE == -1

input_function_get_code(name) ==
    IF \E i \in 1..Len(name_arr) : name_arr[i] = name
    THEN code_arr[CHOOSE i \in 1..Len(name_arr) : name_arr[i] = name]
    ELSE NO_CODE

R_SELF_INSERT == input_function_get_code("self-insert")
R_EXECUTE == input_function_get_code("execute")
R_FORWARD_JUMP == input_function_get_code("forward-jump")
R_BACKWARD_JUMP == input_function_get_code("backward-jump")
R_AND == input_function_get_code("and")

input_function_arity(function) ==
    IF function \in {R_FORWARD_JUMP, R_BACKWARD_JUMP} THEN 1 ELSE 0

----------------------------------------------------------------------------
(* The universe the actions draw their inputs from *)

\* characters binding sequences are made of: 'a'
KeyChars == {97}
\* characters the terminal may deliver: 'a', 'b', ESC
TermChars == {97, 98, 27}

\* binding sequences: the generic one, a key, and a key sequence it prefixes
Sequences == { << >> } \cup { << c >> : c \in KeyChars }
                       \cup { << c, d >> : c \in KeyChars, d \in KeyChars }
Modes == {DEFAULT_BIND_MODE, "insert"}
\* what a binding may carry: an editor function or a shell command, and the
\* mode it switches to
Payloads ==
    { [commands |-> << "execute" >>, sets_mode |-> DEFAULT_BIND_MODE],
      [commands |-> << "exit" >>, sets_mode |-> "insert"] }

\* the key names of tinfos the model keeps, in the order of the array
TinfoNames == << "a1", "backspace", "up" >>

\* a terminfo string of the terminal database: a null pointer, or bytes
NullString == [null |-> TRUE, bytes |-> << >>]
String(b) == [null |-> FALSE, bytes |-> b]

\* the terminals setupterm may find: what cur_term holds for each key.  One
\* terminal has no key_a1, the other one defines it as the empty string.
Terminals == {"xterm", "ansi"}
cur_term(term) ==
    IF term = "xterm"
    THEN [a1 |-> NullString, backspace |-> String(<< 127 >>),
          up |-> String(<< 27, 91, 65 >>)]
    ELSE [a1 |-> String(<< >>), backspace |-> String(<< 8 >>),
          up |-> String(<< 27, 91, 65 >>)]
\* setupterm fails for the terminal and for the fallback
NoTerminal == "none"

----------------------------------------------------------------------------
(* The binding table *)

\* struct input_mapping_t, as its constructor fills it
input_mapping_t(s, c, m, sm, order) ==
    [seq |-> s, commands |-> c, specification_order |-> order,
     mode |-> m, sets_mode |-> sm]

\* the constructor's ++s_last_input_mapping_specification_order; the counter is
\* an unsigned int, and MaxOrder keeps it far below the value where it wraps
NextOrder(order) == order + 1

length_is_greater_than(m1, m2) == Len(m1.seq) > Len(m2.seq)

specification_order_is_less_than(m1, m2) ==
    m1.specification_order < m2.specification_order

\* std::lower_bound(first, first + len, value, length_is_greater_than):
\* the halving search of the standard library, on 0-based offsets
RECURSIVE lower_bound(_, _, _, _)
lower_bound(list, first, len, value) ==
    IF len <= 0 THEN first
    ELSE LET half == len \div 2
             mid  == first + half
         IN  IF length_is_greater_than(list[mid + 1], value)
             THEN lower_bound(list, mid + 1, len - half - 1, value)
             ELSE lower_bound(list, first, half, value)

\* vector::insert before 0-based offset loc
InsertAt(list, loc, m) ==
    SubSeq(list, 1, loc) \o << m >> \o SubSeq(list, loc + 1, Len(list))

input_mapping_insert_sorted(list, new_mapping) ==
    InsertAt(list, lower_bound(list, 0, Len(list), new_mapping), new_mapping)

\* index of the first mapping with this sequence and mode, 0 when none
FirstWith(list, sequence, mode) ==
    IF \E i \in 1..Len(list) : list[i].seq = sequence /\ list[i].mode = mode
    THEN CHOOSE i \in 1..Len(list) :
            /\ list[i].seq = sequence /\ list[i].mode = mode
            /\ \A j \in 1..(i - 1) : ~(list[j].seq = sequence /\ list[j].mode = mode)
    ELSE 0

\* input_mapping_add that never looks for an existing mapping
input_mapping_add_always_inserts(list, order, sequence, commands, mode, sets_mode) ==
    [list  |-> input_mapping_insert_sorted(list,
                   input_mapping_t(sequence, commands, mode, sets_mode,
                                   NextOrder(order))),
     order |-> NextOrder(order)]

\* input_mapping_add that removes the existing mapping and inserts a new one
input_mapping_add_removes_existing(list, order, sequence, commands, mode, sets_mode) ==
    LET kept == SelectSeq(list, LAMBDA b : ~(b.seq = sequence /\ b.mode = mode))
    IN  [list  |-> input_mapping_insert_sorted(kept,
                       input_mapping_t(sequence, commands, mode, sets_mode,
                                       NextOrder(order))),
         order |-> NextOrder(order)]

\* input_mapping_add: the table and the stamp counter afterwards
input_mapping_add(list, order, sequence, commands, mode, sets_mode) ==
    LET i == FirstWith(list, sequence, mode)
    IN  IF i # 0
        THEN [list  |-> [list EXCEPT ![i].commands = commands,
                                     ![i].sets_mode = sets_mode],
              order |-> order]
        ELSE [list  |-> input_mapping_insert_sorted(list,
                            input_mapping_t(sequence, commands, mode, sets_mode,
                                            NextOrder(order))),
              order |-> NextOrder(order)]

\* index of the first mapping input_mapping_erase's loop accepts, 0 when none
EraseIndex(list, sequence, mode) ==
    LET hit(i) == sequence = list[i].seq /\ (mode = NULL \/ mode = list[i].mode)
    IN  IF \E i \in 1..Len(list) : hit(i)
        THEN CHOOSE i \in 1..Len(list) : hit(i) /\ \A j \in 1..(i - 1) : ~hit(j)
        ELSE 0

\* input_mapping_erase that drops the last element without copying it
input_mapping_erase_pops_only(list, sequence, mode) ==
    IF EraseIndex(list, sequence, mode) = 0
    THEN [list |-> list, result |-> FALSE]
    ELSE [list |-> SubSeq(list, 1, Len(list) - 1), result |-> TRUE]

\* input_mapping_erase that compares the sequence alone
input_mapping_erase_any_mode(list, sequence, mode) ==
    LET i  == EraseIndex(list, sequence, NULL)
        sz == Len(list)
    IN  IF i = 0
        THEN [list |-> list, result |-> FALSE]
        ELSE [list   |-> SubSeq(IF i # sz THEN [list EXCEPT ![i] = list[sz]] ELSE list,
                                1, sz - 1),
              result |-> TRUE]

\* input_mapping_erase: the last element is copied over the erased one
input_mapping_erase(list, sequence, mode) ==
    LET i  == EraseIndex(list, sequence, mode)
        sz == Len(list)
    IN  IF i = 0
        THEN [list |-> list, result |-> FALSE]
        ELSE [list   |-> SubSeq(IF i # sz THEN [list EXCEPT ![i] = list[sz]] ELSE list,
                                1, sz - 1),
              result |-> TRUE]

\* input_mapping_get: the first mapping with this sequence, in any mode
input_mapping_get(list, sequence) ==
    IF \E i \in 1..Len(list) : list[i].seq = sequence
    THEN LET i == CHOOSE k \in 1..Len(list) :
                    /\ list[k].seq = sequence
                    /\ \A j \in 1..(k - 1) : list[j].seq # sequence
         IN  [result |-> TRUE, out_cmds |-> list[i].commands,
              out_mode |-> list[i].mode, out_sets_mode |-> list[i].sets_mode]
    ELSE [result |-> FALSE]

\* std::sort(first, last, specification_order_is_less_than), as an insertion sort
RECURSIVE SortBySpecificationOrder(_)
SortBySpecificationOrder(list) ==
    IF list = << >> THEN << >>
    ELSE LET rest == SortBySpecificationOrder(Tail(list))
             m    == Head(list)
             k    == Cardinality({ i \in 1..Len(rest) :
                                     ~specification_order_is_less_than(m, rest[i]) })
         IN  InsertAt(rest, k, m)

\* input_mapping_get_names that lists the table in its stored order
input_mapping_get_names_unsorted(list) ==
    [i \in 1..Len(list) |-> list[i].seq]

input_mapping_get_names(list) ==
    LET local_list == SortBySpecificationOrder(list)
    IN  [i \in 1..Len(local_list) |-> local_list[i].seq]

----------------------------------------------------------------------------
(* Lifecycle and the terminfo registry.  The operators work on a record s  *)
(* with is_init, terminfo_mappings (tm), the table (list) and its stamp     *)
(* counter (order), and exited once setupterm has failed for good.          *)

\* the array tinfos of input_terminfo_init, filled from the terminal
tinfos(term) ==
    [i \in 1..Len(TinfoNames) |->
        [name |-> TinfoNames[i], seq |-> cur_term(term)[TinfoNames[i]]]]

\* terminfo_mappings.insert(terminfo_mappings.end(), tinfos, tinfos + count)
input_terminfo_init(tm, term) == tm \o tinfos(term)

\* the bindings input_init adds to an empty table, in its order; mode and
\* sets_mode are the defaults of the declaration of input_mapping_add
DefaultBindings ==
    << [seq |-> << >>,   command |-> "self-insert"],
       [seq |-> << 10 >>, command |-> "execute"],
       [seq |-> << 9 >>,  command |-> "complete"],
       [seq |-> << 3 >>,  command |-> "commandline \"\""],
       [seq |-> << 4 >>,  command |-> "exit"],
       [seq |-> << 5 >>,  command |-> "bind"] >>

\* the calls input_mapping_add(seq, command) of input_init, from the i-th on
RECURSIVE AddDefaults(_, _)
AddDefaults(t, i) ==
    IF i > Len(DefaultBindings) THEN t
    ELSE AddDefaults(input_mapping_add(t.list, t.order, DefaultBindings[i].seq,
                                       << DefaultBindings[i].command >>,
                                       DEFAULT_BIND_MODE, DEFAULT_BIND_MODE),
                     i + 1)

\* input_init(): setupterm, input_terminfo_init, then the default bindings
\* for an empty table
input_init(s, term) ==
    IF s.is_init THEN s
    ELSE IF term = NoTerminal
    THEN [s EXCEPT !.is_init = TRUE, !.exited = TRUE]
    ELSE LET t == IF s.list = << >>
                  THEN AddDefaults([list |-> s.list, order |-> s.order], 1)
                  ELSE [list |-> s.list, order |-> s.order]
         IN  [s EXCEPT !.is_init = TRUE,
                       !.tm = input_terminfo_init(s.tm, term),
                       !.list = t.list, !.order = t.order]

input_destroy(s) ==
    IF ~s.is_init THEN s ELSE [s EXCEPT !.is_init = FALSE]

\* format_string(L"%s", res): each byte of an ASCII string as a wide character
format_string(bytes) == [i \in 1..Len(bytes) |-> bytes[i]]

ENOENT == "ENOENT"
EILSEQ == "EILSEQ"

\* index of the first entry of the registry with this name, 0 when none
TerminfoIndex(tm, name) ==
    IF \E i \in 1..Len(tm) : tm[i].name = name
    THEN CHOOSE i \in 1..Len(tm) :
            tm[i].name = name /\ \A j \in 1..(i - 1) : tm[j].name # name
    ELSE 0

\* input_terminfo_get_sequence that takes an empty string for a missing one
input_terminfo_get_sequence_empty_is_absent(tm, name) ==
    LET i   == TerminfoIndex(tm, name)
        res == IF i = 0 THEN NullString ELSE tm[i].seq
        err == IF i = 0 THEN ENOENT ELSE EILSEQ
    IN  IF res.null \/ res.bytes = << >>
        THEN [result |-> FALSE, errno |-> << err >>, out_seq |-> << >>]
        ELSE [result |-> TRUE, errno |-> << >>,
              out_seq |-> << format_string(res.bytes) >>]

\* input_terminfo_get_sequence after its call of input_init: the result, and
\* errno or *out_seq when it writes them
input_terminfo_get_sequence(tm, name) ==
    LET i   == TerminfoIndex(tm, name)
        res == IF i = 0 THEN NullString ELSE tm[i].seq
        err == IF i = 0 THEN ENOENT ELSE EILSEQ
    IN  IF res.null
        THEN [result |-> FALSE, errno |-> << err >>, out_seq |-> << >>]
        ELSE [result |-> TRUE, errno |-> << >>,
              out_seq |-> << format_string(res.bytes) >>]

----------------------------------------------------------------------------
(* The reader and the dispatcher.  The operators below thread a record st  *)
(* holding the state a call of input_readch works on:                      *)
(*   la, term : push-back stack and pending terminal input                 *)
(*   closed : the reader has found the end of the input                    *)
(*   mode, status, args, idx : bind mode, input_function_status,           *)
(*                             input_function_args and its index           *)
(*   log : the bindings dispatched and the commands evaluated by the call, *)
(*         the R_AND directives it read (ands), the stream and the bind     *)
(*         mode the call started from, and, kept from call to call, the     *)
(*         last dispatch of a binding with several commands and what        *)
(*         input_readch has returned and input_function_pop_arg has popped  *)
(*         since (chain), and whether a read of the call was delivered      *)
(*         R_EOF (eof)                                                      *)
(***************************************************************************)

iswcntrl(c) == c < 32 \/ (c >= 127 /\ c < 160)

IsInternal(c) == c >= R_MIN /\ c <= R_MAX

\* input_common_readch(timed): the push-back stack first, then the terminal,
\* then end of input; a read that delivers R_EOF is noted in the log
input_common_readch(st, timed) ==
    IF st.la # << >>
    THEN [c |-> Head(st.la),
          st |-> [st EXCEPT !.la = Tail(@),
                            !.log.eof = @ \/ Head(st.la) = R_EOF]]
    ELSE IF st.term # << >>
         THEN [c |-> Head(st.term), st |-> [st EXCEPT !.term = Tail(@)]]
         ELSE [c |-> R_EOF, st |-> [st EXCEPT !.closed = TRUE, !.log.eof = TRUE]]

\* input_common_unreadch(ch): LIFO push-back
input_common_unreadch(st, ch) == [st EXCEPT !.la = << ch >> \o @]

input_unreadch(st, ch) == input_common_unreadch(st, ch)

\* what the next reads deliver: the stack, then the terminal, then R_EOF for
\* ever (so trailing R_EOF values are dropped)
RECURSIVE StripEOF(_)
StripEOF(s) ==
    IF s # << >> /\ s[Len(s)] = R_EOF THEN StripEOF(SubSeq(s, 1, Len(s) - 1)) ELSE s

Stream(la, term) == StripEOF(la \o term)

\* input_function_get_arg(index)
input_function_get_arg(args, index) == args[index]

\* input_function_args[input_function_args_index++] = arg
input_function_push_arg(st, arg) ==
    [st EXCEPT !.args = IF st.idx \in DOMAIN st.args
                        THEN [st.args EXCEPT ![st.idx] = arg] ELSE st.args,
               !.idx = st.idx + 1]

RECURSIVE PushArgsLoop(_, _, _)
PushArgsLoop(st, i, arity) ==
    IF i >= arity THEN st
    ELSE LET r == input_common_readch(st, FALSE)
         IN  PushArgsLoop(input_function_push_arg(r.st, r.c), i + 1, arity)

input_function_push_args(st, code) ==
    PushArgsLoop(st, 0, input_function_arity(code))

\* first loop of input_mapping_execute: arguments, last command first
RECURSIVE ExecutePass1(_, _, _)
ExecutePass1(m, idx, st) ==
    IF idx = 0 THEN st
    ELSE LET code == input_function_get_code(m.commands[idx])
         IN  ExecutePass1(m, idx - 1,
                          IF code # NO_CODE THEN input_function_push_args(st, code)
                          ELSE st)

\* the push-back of m.seq through its reverse iterator
RECURSIVE UnreadReversed(_, _, _)
UnreadReversed(seq, k, st) ==
    IF k = 0 THEN st ELSE UnreadReversed(seq, k - 1, input_unreadch(st, seq[k]))

\* the second loop giving up without the push-back of m.seq
RECURSIVE ExecutePass2_drops_seq(_, _, _, _)
ExecutePass2_drops_seq(m, idx, st, allow) ==
    IF idx = 0 THEN [st |-> st, completed |-> TRUE]
    ELSE LET command == m.commands[idx]
             code    == input_function_get_code(command)
         IN  IF code # NO_CODE
             THEN ExecutePass2_drops_seq(m, idx - 1, input_unreadch(st, code), allow)
             ELSE IF allow
             THEN ExecutePass2_drops_seq(m, idx - 1,
                      input_unreadch([st EXCEPT !.log.evald = Append(@, command)],
                                     R_NULL),
                      allow)
             ELSE [st |-> input_unreadch(st, R_NULL), completed |-> FALSE]

\* the second loop walking the commands from the first to the last
RECURSIVE ExecutePass2_forward(_, _, _, _)
ExecutePass2_forward(m, idx, st, allow) ==
    IF idx = 0 THEN [st |-> st, completed |-> TRUE]
    ELSE LET command == m.commands[Len(m.commands) - idx + 1]
             code    == input_function_get_code(command)
         IN  IF code # NO_CODE
             THEN ExecutePass2_forward(m, idx - 1, input_unreadch(st, code), allow)
             ELSE IF allow
             THEN ExecutePass2_forward(m, idx - 1,
                      input_unreadch([st EXCEPT !.log.evald = Append(@, command)],
                                     R_NULL),
                      allow)
             ELSE [st |-> input_unreadch(UnreadReversed(m.seq, Len(m.seq), st), R_NULL),
                   completed |-> FALSE]

\* second loop of input_mapping_execute: codes are pushed back, commands are
\* evaluated or, when commands are not allowed, the dispatch is given up
RECURSIVE ExecutePass2(_, _, _, _)
ExecutePass2(m, idx, st, allow) ==
    IF idx = 0 THEN [st |-> st, completed |-> TRUE]
    ELSE LET command == m.commands[idx]
             code    == input_function_get_code(command)
         IN  IF code # NO_CODE
             THEN ExecutePass2(m, idx - 1, input_unreadch(st, code), allow)
             ELSE IF allow
             THEN ExecutePass2(m, idx - 1,
                      input_unreadch([st EXCEPT !.log.evald = Append(@, command)],
                                     R_NULL),
                      allow)
             ELSE [st |-> input_unreadch(UnreadReversed(m.seq, Len(m.seq), st), R_NULL),
                   completed |-> FALSE]

\* input_mapping_execute that sets the bind mode on every way out
input_mapping_execute_always_sets_mode(m, st, allow) ==
    LET s1 == ExecutePass1(m, Len(m.commands), [st EXCEPT !.status = TRUE])
        r2 == ExecutePass2(m, Len(m.commands), s1, allow)
    IN  [r2.st EXCEPT !.mode = m.sets_mode]

input_mapping_execute(m, st, allow) ==
    LET s1 == ExecutePass1(m, Len(m.commands), [st EXCEPT !.status = TRUE])
        r2 == ExecutePass2(m, Len(m.commands), s1, allow)
    IN  IF r2.completed THEN [r2.st EXCEPT !.mode = m.sets_mode] ELSE r2.st

\* the reading loop of input_mapping_is_match, from 0-based position j
RECURSIVE MatchLoop(_, _, _, _)
MatchLoop(seq, j, c, st) ==
    IF j >= Len(seq) THEN [j |-> j, c |-> c, st |-> st]
    ELSE LET timed == j > 0 /\ iswcntrl(seq[1])
             r     == input_common_readch(st, timed)
         IN  IF seq[j + 1] # r.c
             THEN [j |-> j, c |-> r.c, st |-> r.st]
             ELSE MatchLoop(seq, j + 1, r.c, r.st)

\* the push-back of m.seq[k], k = j-1 .. 0
RECURSIVE UnreadMatched(_, _, _)
UnreadMatched(seq, k, st) ==
    IF k < 0 THEN st ELSE UnreadMatched(seq, k - 1, input_unreadch(st, seq[k + 1]))

\* input_mapping_is_match that pushes the matched characters back but not the
\* character that did not match
input_mapping_is_match_drops_c(m, st) ==
    LET r == MatchLoop(m.seq, 0, 0, st)
    IN  IF r.j = Len(m.seq)
        THEN [result |-> TRUE, st |-> r.st]
        ELSE [result |-> FALSE, st |-> UnreadMatched(m.seq, r.j - 1, r.st)]

input_mapping_is_match(m, st) ==
    LET r == MatchLoop(m.seq, 0, 0, st)
    IN  IF r.j = Len(m.seq)
        THEN [result |-> TRUE, st |-> r.st]
        ELSE [result |-> FALSE,
              st |-> UnreadMatched(m.seq, r.j - 1, input_unreadch(r.st, r.c))]

\* no binding with several commands has been dispatched
NoChain ==
    [m |-> input_mapping_t(<< >>, << >>, "", "", 0), stream |-> << >>,
     rets |-> << >>, after |-> << >>, pops |-> << >>]

\* a call of input_mapping_execute from the scan, noted in the log
Dispatch(list, i, st, allow, before) ==
    input_mapping_execute(list[i],
        [st EXCEPT !.log.disp = Append(@, [m |-> list[i], at_mode |-> before.mode,
                                           stream |-> Stream(before.la, before.term)]),
                   !.log.chain = IF Len(list[i].commands) >= 2
                                 THEN [m |-> list[i],
                                       stream |-> Stream(before.la, before.term),
                                       rets |-> << >>, after |-> << >>,
                                       pops |-> << >>]
                                 ELSE NoChain],
        allow)

\* the scan of input_mapping_execute_matching_or_generic from index i, with
\* generic the index of the generic mapping seen so far (0: none)
RECURSIVE ScanMappings(_, _, _, _, _, _)
ScanMappings(list, i, generic, st, allow, before) ==
    IF i > Len(list)
    THEN IF generic # 0
         THEN Dispatch(list, generic, st, allow, before)
         ELSE LET r == input_common_readch(st, FALSE)
              IN  IF r.c = R_EOF THEN input_common_unreadch(r.st, r.c) ELSE r.st
    ELSE LET m == list[i]
         IN  IF m.mode # before.mode
             THEN ScanMappings(list, i + 1, generic, st, allow, before)
             ELSE IF Len(m.seq) = 0
             THEN ScanMappings(list, i + 1, i, st, allow, before)
             ELSE LET r == input_mapping_is_match(m, st)
                  IN  IF r.result
                      THEN Dispatch(list, i, r.st, allow, before)
                      ELSE ScanMappings(list, i + 1, generic, r.st, allow, before)

\* the scan without the comparison of m.mode with the bind mode
RECURSIVE ScanAnyMode(_, _, _, _, _, _)
ScanAnyMode(list, i, generic, st, allow, before) ==
    IF i > Len(list)
    THEN IF generic # 0
         THEN Dispatch(list, generic, st, allow, before)
         ELSE LET r == input_common_readch(st, FALSE)
              IN  IF r.c = R_EOF THEN input_common_unreadch(r.st, r.c) ELSE r.st
    ELSE LET m == list[i]
         IN  IF Len(m.seq) = 0
             THEN ScanAnyMode(list, i + 1, i, st, allow, before)
             ELSE LET r == input_mapping_is_match(m, st)
                  IN  IF r.result
                      THEN Dispatch(list, i, r.st, allow, before)
                      ELSE ScanAnyMode(list, i + 1, generic, r.st, allow, before)

matching_or_generic_any_mode(list, st, allow) ==
    ScanAnyMode(list, 1, 0, st, allow, st)

\* the scan that dispatches the generic mapping as soon as it meets it
RECURSIVE ScanGenericAtOnce(_, _, _, _, _)
ScanGenericAtOnce(list, i, st, allow, before) ==
    IF i > Len(list)
    THEN LET r == input_common_readch(st, FALSE)
         IN  IF r.c = R_EOF THEN input_common_unreadch(r.st, r.c) ELSE r.st
    ELSE LET m == list[i]
         IN  IF m.mode # before.mode
             THEN ScanGenericAtOnce(list, i + 1, st, allow, before)
             ELSE IF Len(m.seq) = 0
             THEN Dispatch(list, i, st, allow, before)
             ELSE LET r == input_mapping_is_match(m, st)
                  IN  IF r.result
                      THEN Dispatch(list, i, r.st, allow, before)
                      ELSE ScanGenericAtOnce(list, i + 1, r.st, allow, before)

matching_or_generic_generic_at_once(list, st, allow) ==
    ScanGenericAtOnce(list, 1, st, allow, st)

\* the scan whose tail, with no generic mapping, reads nothing
RECURSIVE ScanDiscardsNothing(_, _, _, _, _, _)
ScanDiscardsNothing(list, i, generic, st, allow, before) ==
    IF i > Len(list)
    THEN IF generic # 0
         THEN Dispatch(list, generic, st, allow, before)
         ELSE st
    ELSE LET m == list[i]
         IN  IF m.mode # before.mode
             THEN ScanDiscardsNothing(list, i + 1, generic, st, allow, before)
             ELSE IF Len(m.seq) = 0
             THEN ScanDiscardsNothing(list, i + 1, i, st, allow, before)
             ELSE LET r == input_mapping_is_match(m, st)
                  IN  IF r.result
                      THEN Dispatch(list, i, r.st, allow, before)
                      ELSE ScanDiscardsNothing(list, i + 1, generic, r.st, allow, before)

matching_or_generic_discards_nothing(list, st, allow) ==
    ScanDiscardsNothing(list, 1, 0, st, allow, st)

input_mapping_execute_matching_or_generic(list, st, allow) ==
    ScanMappings(list, 1, 0, st, allow, st)

----------------------------------------------------------------------------
(* Initial state: static storage before input_init *)

Init ==
    /\ mapping_list = << >>
    /\ s_last_order = 0
    /\ bind_mode = DEFAULT_BIND_MODE
    /\ lookahead = << >>
    /\ terminal = << >>
    /\ terminal_closed = FALSE
    /\ input_function_status = FALSE
    /\ input_function_args = [i \in 0..(MAX_INPUT_FUNCTION_ARGS - 1) |-> 0]
    /\ input_function_args_index = 0
    /\ pc = "idle"
    /\ allow_commands = TRUE
    /\ last = [op |-> "none"]
    /\ log = [disp |-> << >>, evald |-> << >>, ands |-> << >>,
              start |-> [stream |-> << >>, mode |-> DEFAULT_BIND_MODE],
              chain |-> NoChain, eof |-> FALSE]
    /\ is_init = FALSE
    /\ terminfo_mappings = << >>

ReaderUnchanged ==
    UNCHANGED << bind_mode, lookahead, terminal, terminal_closed,
                 input_function_status,
                 input_function_args, input_function_args_index, pc,
                 allow_commands, log, is_init, terminfo_mappings >>

----------------------------------------------------------------------------
(* Operations on the table *)

\* input_mapping_add(sequence, commands, commands_len, mode, sets_mode)
AddBinding(sequence, commands, mode, sets_mode) ==
    LET r == input_mapping_add(mapping_list, s_last_order, sequence, commands,
                               mode, sets_mode)
    IN  /\ pc = "idle"
        /\ mapping_list' = r.list
        /\ s_last_order' = r.order
        /\ last' = [op |-> "add", seq |-> sequence, mode |-> mode,
                    existed |-> FirstWith(mapping_list, sequence, mode) # 0]
        /\ ReaderUnchanged

\* input_mapping_add while no more than MaxOrder bindings have been constructed
Add(sequence, commands, mode, sets_mode) ==
    LET r == input_mapping_add(mapping_list, s_last_order, sequence, commands,
                               mode, sets_mode)
    IN  /\ r.order <= MaxOrder
        /\ AddBinding(sequence, commands, mode, sets_mode)

Erase(sequence, mode) ==
    LET r == input_mapping_erase(mapping_list, sequence, mode)
    IN  /\ pc = "idle"
        /\ mapping_list' = r.list
        /\ last' = [op |-> "erase", seq |-> sequence, mode |-> mode,
                    result |-> r.result]
        /\ UNCHANGED s_last_order
        /\ ReaderUnchanged

Get(sequence) ==
    /\ pc = "idle"
    /\ last' = [op |-> "get", seq |-> sequence,
                result |-> input_mapping_get(mapping_list, sequence).result]
    /\ UNCHANGED << is_init, terminfo_mappings, mapping_list, s_last_order >>
    /\ ReaderUnchanged

GetNames ==
    /\ pc = "idle"
    /\ last' = [op |-> "names", result |-> Len(input_mapping_get_names(mapping_list))]
    /\ UNCHANGED << is_init, terminfo_mappings, mapping_list, s_last_order >>
    /\ ReaderUnchanged

----------------------------------------------------------------------------
(* Lifecycle and the terminfo registry *)

LifeSt ==
    [is_init |-> is_init, tm |-> terminfo_mappings, list |-> mapping_list,
     order |-> s_last_order, exited |-> FALSE]

\* the write-back of a lifecycle record; the process is gone once setupterm
\* has failed for good
LifeCommit(s) ==
    /\ is_init' = s.is_init
    /\ terminfo_mappings' = s.tm
    /\ mapping_list' = s.list
    /\ s_last_order' = s.order
    /\ pc' = IF s.exited THEN "exited" ELSE pc

LifeUnchanged ==
    UNCHANGED << bind_mode, lookahead, terminal, terminal_closed,
                 input_function_status, input_function_args,
                 input_function_args_index, allow_commands, log >>

\* the registry is filled at most MaxInit times
InitBounded ==
    is_init \/ Len(terminfo_mappings) < MaxInit * Len(TinfoNames)

\* input_init(), setupterm finding the terminal term or failing
InputInit(term) ==
    /\ pc = "idle"
    /\ InitBounded
    /\ LifeCommit(input_init(LifeSt, term))
    /\ last' = [op |-> "init", was_init |-> is_init,
                was_empty |-> mapping_list = << >>]
    /\ LifeUnchanged

\* input_destroy()
InputDestroy ==
    /\ pc = "idle"
    /\ LifeCommit(input_destroy(LifeSt))
    /\ last' = [op |-> "destroy", was_init |-> is_init]
    /\ LifeUnchanged

\* input_terminfo_get_sequence(name, &out_seq), with its call of input_init
TerminfoGetSequence(name, term) ==
    LET s == input_init(LifeSt, term)
        r == input_terminfo_get_sequence(s.tm, name)
    IN  /\ pc = "idle"
        /\ InitBounded
        /\ LifeCommit(s)
        /\ last' = IF s.exited THEN [op |-> "exit"]
                   ELSE [op |-> "terminfo", name |-> name, result |-> r.result,
                         errno |-> r.errno, out_seq |-> r.out_seq]
        /\ LifeUnchanged

----------------------------------------------------------------------------
(* The reader's side *)

\* the state a call works on, and its write-back
St ==
    [la |-> lookahead, term |-> terminal, closed |-> terminal_closed,
     mode |-> bind_mode, status |-> input_function_status,
     args |-> input_function_args, idx |-> input_function_args_index,
     log |-> log]

Commit(st) ==
    /\ lookahead' = st.la
    /\ terminal' = st.term
    /\ terminal_closed' = st.closed
    /\ bind_mode' = st.mode
    /\ input_function_status' = st.status
    /\ input_function_args' = st.args
    /\ input_function_args_index' = st.idx
    /\ log' = st.log

\* the default of input_readch's parameter, used by its calls of itself
DefaultAllowCommands == TRUE

\* values an explicit input_unreadch pushes: characters, a function code, R_EOF
UnreadValues == {97, 98, R_EXECUTE, R_EOF}

\* a key arrives on the terminal before the reader has found the end of input
TerminalInput(c) ==
    /\ pc = "idle"
    /\ ~terminal_closed
    /\ Len(terminal) < MaxTerminal
    /\ terminal' = Append(terminal, c)
    /\ last' = [op |-> "input"]
    /\ UNCHANGED << is_init, terminfo_mappings,
                    mapping_list, s_last_order, bind_mode, lookahead,
                    terminal_closed, input_function_status, input_function_args,
                    input_function_args_index, pc, allow_commands, log >>

\* a key arrives whose characters the terminal delivers in one burst
TerminalKey(k) ==
    /\ pc = "idle"
    /\ ~terminal_closed
    /\ Len(terminal) < MaxTerminal
    /\ terminal' = terminal \o k
    /\ last' = [op |-> "input"]
    /\ UNCHANGED << is_init, terminfo_mappings, mapping_list, s_last_order,
                    bind_mode, lookahead, terminal_closed, input_function_status,
                    input_function_args, input_function_args_index, pc,
                    allow_commands, log >>

\* input_unreadch, called from outside the dispatcher
Unreadch(ch) ==
    /\ pc = "idle"
    /\ Len(lookahead) < MaxLookahead
    /\ Commit(input_unreadch(St, ch))
    /\ last' = [op |-> "unreadch"]
    /\ UNCHANGED << is_init, terminfo_mappings,
                    mapping_list, s_last_order, pc, allow_commands >>

\* input_set_bind_mode, called from outside the dispatcher
SetBindMode(bm) ==
    /\ pc = "idle"
    /\ bind_mode' = bm
    /\ UNCHANGED << is_init, terminfo_mappings,
                    mapping_list, s_last_order, lookahead, terminal,
                    terminal_closed, input_function_status, input_function_args,
                    input_function_args_index, pc, allow_commands, last, log >>

\* input_mapping_is_match tried on a mapping with sequence seq
TryMatch(seq) ==
    LET m == input_mapping_t(seq, << "execute" >>, bind_mode, bind_mode, 0)
        r == input_mapping_is_match(m, St)
        l == MatchLoop(seq, 0, 0, St)
    IN  /\ pc = "idle"
        /\ Commit(r.st)
        /\ last' = [op |-> "is_match", seq |-> seq, result |-> r.result,
                    before |-> Stream(lookahead, terminal),
                    k |-> IF l.j = Len(seq) THEN l.j ELSE l.j + 1]
        /\ UNCHANGED << is_init, terminfo_mappings,
                        mapping_list, s_last_order, pc, allow_commands >>

\* entry of input_readch(allow)
ReadchCall(allow) ==
    /\ pc = "idle"
    /\ pc' = "readch"
    /\ allow_commands' = allow
    /\ log' = [disp |-> << >>, evald |-> << >>, ands |-> << >>,
               start |-> [stream |-> Stream(lookahead, terminal), mode |-> bind_mode],
               chain |-> log.chain, eof |-> FALSE]
    /\ last' = [op |-> "readch", allow |-> allow, returned |-> FALSE]
    /\ UNCHANGED << is_init, terminfo_mappings,
                    mapping_list, s_last_order, bind_mode, lookahead, terminal,
                    terminal_closed, input_function_status, input_function_args,
                    input_function_args_index >>

\* the value c returned is noted in the log while the commands of the last
\* chain have not all been answered, with the stream left at the last answer
NoteReturn(st, c) ==
    LET ch == st.log.chain
    IN  IF Len(ch.rets) < Len(ch.m.commands)
        THEN [st EXCEPT !.log.chain.rets = Append(@, c),
                        !.log.chain.after =
                            IF Len(ch.rets) + 1 = Len(ch.m.commands)
                            THEN Stream(st.la, st.term) ELSE << >>]
        ELSE st

Return(st, c) ==
    /\ Commit(NoteReturn(st, c))
    /\ pc' = "idle"
    /\ last' = [last EXCEPT !.returned = TRUE] @@ [ret |-> c]
    /\ UNCHANGED << is_init, terminfo_mappings,
                    mapping_list, s_last_order, allow_commands >>

\* the pass that returns R_SELF_INSERT like any other code
ReadchCode_returns_self_insert ==
    LET r == input_common_readch(St, FALSE)
    IN  /\ pc = "readch"
        /\ IsInternal(r.c) /\ r.c # R_AND
        /\ Return(r.st, r.c)

\* one pass of the loop that reads an internal code other than R_AND: the
\* call returns
ReadchCode ==
    LET r == input_common_readch(St, FALSE)
    IN  /\ pc = "readch"
        /\ IsInternal(r.c) /\ r.c # R_AND
        /\ IF r.c = R_SELF_INSERT
           THEN LET r2 == input_common_readch(r.st, FALSE) IN Return(r2.st, r2.c)
           ELSE Return(r.st, r.c)

\* the pass that reads R_AND and goes on without a look at the status
ReadchAnd_ignores_status ==
    LET r == input_common_readch(St, FALSE)
    IN  /\ pc = "readch"
        /\ r.c = R_AND
        /\ Commit([r.st EXCEPT !.log.ands =
                      Append(@, [status |-> r.st.status,
                                 after |-> Stream(r.st.la, r.st.term),
                                 drained |-> FALSE, resumed |-> << >>])])
        /\ pc' = "readch"
        /\ allow_commands' = DefaultAllowCommands
        /\ UNCHANGED << is_init, terminfo_mappings, mapping_list, s_last_order, last >>

\* one pass of the loop that reads R_AND: the call goes on as input_readch(),
\* after the drain loop when the status is false
ReadchAnd ==
    LET r == input_common_readch(St, FALSE)
    IN  /\ pc = "readch"
        /\ r.c = R_AND
        /\ Commit([r.st EXCEPT !.log.ands =
                      Append(@, [status |-> r.st.status,
                                 after |-> Stream(r.st.la, r.st.term),
                                 drained |-> FALSE, resumed |-> << >>])])
        /\ pc' = IF r.st.status THEN "readch" ELSE "drain"
        /\ allow_commands' = IF r.st.status THEN DefaultAllowCommands ELSE allow_commands
        /\ UNCHANGED << is_init, terminfo_mappings, mapping_list, s_last_order, last >>

\* one read of the loop that drops the codes queued after a failed R_AND; the
\* first value that is no code is pushed back and input_readch() goes on
ReadchDrain ==
    LET r == input_common_readch(St, FALSE)
        s == input_unreadch(r.st, r.c)
        n == Len(log.ands)
    IN  /\ pc = "drain"
        /\ IF r.c # 0 /\ IsInternal(r.c)
           THEN /\ Commit(r.st)
                /\ UNCHANGED << pc, allow_commands >>
           ELSE /\ Commit([s EXCEPT !.log.ands[n].drained = TRUE,
                                    !.log.ands[n].resumed = Stream(s.la, s.term)])
                /\ pc' = "readch"
                /\ allow_commands' = DefaultAllowCommands
        /\ UNCHANGED << is_init, terminfo_mappings, mapping_list, s_last_order, last >>

\* input_function_pop_arg(), called by the consumer of a code with an
\* argument, while the stack holds one; the value popped is noted in the log
\* with the number of values input_readch has returned since the dispatch
PopArg ==
    LET value == input_function_args[input_function_args_index - 1]
        ch    == log.chain
    IN  /\ pc = "idle"
        /\ input_function_args_index > 0
        /\ input_function_args_index' = input_function_args_index - 1
        /\ last' = [op |-> "pop", result |-> value]
        /\ log' = IF Len(ch.pops) < Len(ch.m.commands)
                  THEN [log EXCEPT !.chain.pops =
                            Append(@, [after |-> Len(ch.rets), value |-> value])]
                  ELSE log
        /\ UNCHANGED << is_init, terminfo_mappings, mapping_list, s_last_order,
                        bind_mode, lookahead, terminal, terminal_closed,
                        input_function_status, input_function_args, pc,
                        allow_commands >>

\* input_function_set_status(status), called by the consumer of the codes
FunctionSetStatus(status) ==
    /\ pc = "idle"
    /\ input_function_status' = status
    /\ UNCHANGED << is_init, terminfo_mappings, mapping_list, s_last_order,
                    bind_mode, lookahead, terminal, terminal_closed,
                    input_function_args, input_function_args_index, pc,
                    allow_commands, last, log >>

\* what a push past the end of input_function_args may leave behind: the
\* write lands in the statics declared after the array or in storage the
\* dispatcher does not use, so the status and the index are either kept or
\* overwritten
Overflows(st) ==
    { [st EXCEPT !.status = status, !.idx = idx] :
        status \in BOOLEAN, idx \in {st.idx, 0} }

\* one pass of the loop that reads an ordinary character: it is pushed back
\* and the mappings are tried; when a push of the dispatch went past the end
\* of input_function_args, the outcome is any of Overflows
ReadchDispatch ==
    LET r  == input_common_readch(St, FALSE)
        st == input_mapping_execute_matching_or_generic(
                  mapping_list, input_unreadch(r.st, r.c), allow_commands)
    IN  /\ pc = "readch"
        /\ ~IsInternal(r.c)
        /\ IF st.idx <= MAX_INPUT_FUNCTION_ARGS
           THEN Commit(st)
           ELSE \E out \in Overflows(st) : Commit(out)
        /\ UNCHANGED << is_init, terminfo_mappings,
                        mapping_list, s_last_order, pc, allow_commands, last >>

----------------------------------------------------------------------------
(* The specifications *)

AddAny ==
    \E s \in Sequences, p \in Payloads, m \in Modes :
        Add(s, p.commands, m, p.sets_mode)

EraseAny ==
    \E s \in Sequences, m \in Modes \cup {NULL} : Erase(s, m)

GetAny ==
    \E s \in Sequences : Get(s)

Next ==
    \/ AddAny
    \/ EraseAny
    \/ GetAny
    \/ GetNames

\* the table alone
Spec == Init /\ [][Next]_vars

\* the matcher alone, on every stream of pushed-back and pending characters
NextMatch ==
    \/ \E c \in TermChars : TerminalInput(c)
    \/ \E ch \in UnreadValues : Unreadch(ch)
    \/ \E s \in Sequences \ { << >> } : TryMatch(s)

SpecMatch == Init /\ [][NextMatch]_vars

\* the table is set up, keys arrive, input_readch is called; every binding
\* carries an editor function and switches to the mode "insert"
SetUp == last.op \in {"none", "add", "erase"}

ReadPayloads == { [commands |-> << "execute" >>, sets_mode |-> "insert"] }

NextRead ==
    \/ SetUp /\ \E s \in Sequences, p \in ReadPayloads, m \in Modes :
                    Add(s, p.commands, m, p.sets_mode)
    \/ SetUp /\ EraseAny
    \/ SetUp /\ \E bm \in Modes : SetBindMode(bm)
    \/ \E c \in KeyChars \cup {98} : TerminalInput(c)
    \/ \E a \in BOOLEAN : ReadchCall(a)
    \/ ReadchCode
    \/ ReadchDispatch

SpecRead == Init /\ [][NextRead]_vars

\* bindings to shell commands and to editor functions, switching between the
\* modes: a key bound to a command, a generic binding to a command, the same
\* key bound to a function in the other mode, and a key sequence bound to a
\* function followed by a command
CmdBindings ==
    { input_mapping_t(<< 97 >>, << "exit" >>, DEFAULT_BIND_MODE, "insert", 0),
      input_mapping_t(<< >>, << "bind" >>, DEFAULT_BIND_MODE, DEFAULT_BIND_MODE, 0),
      input_mapping_t(<< 97 >>, << "execute" >>, "insert", DEFAULT_BIND_MODE, 0),
      input_mapping_t(<< 97, 97 >>, << "execute", "exit" >>, DEFAULT_BIND_MODE,
                      "insert", 0) }

\* the table is set up from CmdBindings, keys arrive, input_readch is called
\* with commands allowed or not
NextCmd ==
    \/ SetUp /\ \E b \in CmdBindings : Add(b.seq, b.commands, b.mode, b.sets_mode)
    \/ \E c \in KeyChars \cup {98} : TerminalInput(c)
    \/ \E a \in BOOLEAN : ReadchCall(a)
    \/ ReadchCode
    \/ ReadchDispatch

SpecCmd == Init /\ [][NextCmd]_vars

\* the keys of the scenarios with the default bindings: 'a', newline, and the
\* escape sequences of the keys up and down
DefaultKeys == { << 97 >>, << 10 >>, << 27, 91, 65 >>, << 27, 91, 66 >> }

\* the binding of the key up
UpLine ==
    input_mapping_t(<< 27, 91, 65 >>, << "up-line" >>, DEFAULT_BIND_MODE,
                    DEFAULT_BIND_MODE, 0)

\* input_init installs the default bindings, the key up may be bound, keys
\* arrive and input_readch is called
NextDefault ==
    \/ \E t \in Terminals \cup {NoTerminal} : InputInit(t)
    \/ /\ is_init /\ FirstWith(mapping_list, UpLine.seq, UpLine.mode) = 0
       /\ AddBinding(UpLine.seq, UpLine.commands, UpLine.mode, UpLine.sets_mode)
    \/ \E k \in DefaultKeys : TerminalKey(k)
    \/ \E a \in BOOLEAN : ReadchCall(a)
    \/ ReadchCode
    \/ ReadchDispatch

SpecDefault == Init /\ [][NextDefault]_vars

\* bindings to lists of editor functions: a key with an "and" chain, a key
\* with a list of two functions, and the generic binding to self-insert
AndBindings ==
    { input_mapping_t(<< 97 >>, << "execute", "and", "complete" >>,
                      DEFAULT_BIND_MODE, DEFAULT_BIND_MODE, 0),
      input_mapping_t(<< 98 >>, << "execute", "complete" >>,
                      DEFAULT_BIND_MODE, DEFAULT_BIND_MODE, 0),
      input_mapping_t(<< >>, << "self-insert" >>,
                      DEFAULT_BIND_MODE, DEFAULT_BIND_MODE, 0) }

\* the table is set up from AndBindings, keys arrive, input_readch is called
\* and the consumer of the codes sets the status
NextAnd ==
    \/ SetUp /\ \E b \in AndBindings : Add(b.seq, b.commands, b.mode, b.sets_mode)
    \/ \E c \in KeyChars \cup {98} : TerminalInput(c)
    \/ \E a \in BOOLEAN : ReadchCall(a)
    \/ \E b \in BOOLEAN : FunctionSetStatus(b)
    \/ ReadchCode
    \/ ReadchAnd
    \/ ReadchDrain
    \/ ReadchDispatch

SpecAnd == Init /\ [][NextAnd]_vars

\* a step of a running call of input_readch
ReadchStep == ReadchCode \/ ReadchAnd \/ ReadchDrain \/ ReadchDispatch

\* bindings to editor functions only: a chain with the "and" directive and
\* the generic binding
LiveBindings ==
    { input_mapping_t(<< 97 >>, << "execute", "and", "complete" >>,
                      DEFAULT_BIND_MODE, DEFAULT_BIND_MODE, 0),
      input_mapping_t(<< >>, << "self-insert" >>,
                      DEFAULT_BIND_MODE, DEFAULT_BIND_MODE, 0) }

\* the table is set up from LiveBindings, finitely many keys arrive before
\* the end of the input, the consumer sets the status, and input_readch is
\* called
NextLive ==
    \/ SetUp /\ \E b \in LiveBindings : Add(b.seq, b.commands, b.mode, b.sets_mode)
    \/ \E c \in {97, 98} : TerminalInput(c)
    \/ ReadchCall(TRUE)
    \/ \E status \in BOOLEAN : FunctionSetStatus(status)
    \/ ReadchStep

\* a call of input_readch that has started keeps running: it is not
\* preempted for ever, while keys and calls come as they like
SpecLive == Init /\ [][NextLive]_vars /\ WF_vars(ReadchStep)

\* bindings to functions that take an argument: a key bound to forward-jump
\* and a key bound to forward-jump and backward-jump
ArgBindings ==
    { input_mapping_t(<< 97 >>, << "forward-jump" >>,
                      DEFAULT_BIND_MODE, DEFAULT_BIND_MODE, 0),
      input_mapping_t(<< 98 >>, << "forward-jump", "backward-jump" >>,
                      DEFAULT_BIND_MODE, DEFAULT_BIND_MODE, 0) }

\* what is typed: the keys with the characters that are their arguments,
\* 'x' and 'y'
ArgKeys == { << 97, 120 >>, << 97, 121 >>, << 98, 120, 121 >> }

\* the table is set up from ArgBindings, keys arrive with their arguments,
\* input_readch is called while the argument stack has room for one more
\* dispatch, and the consumer pops arguments
NextArgs ==
    \/ SetUp /\ \E b \in ArgBindings : Add(b.seq, b.commands, b.mode, b.sets_mode)
    \/ \E k \in ArgKeys : TerminalKey(k)
    \/ input_function_args_index + 2 <= MaxArgs /\ ReadchCall(TRUE)
    \/ ReadchCode
    \/ ReadchDispatch
    \/ PopArg

SpecArgs == Init /\ [][NextArgs]_vars

\* a key bound to a function that takes an argument
StackBindings ==
    { input_mapping_t(<< 97 >>, << "forward-jump" >>,
                      DEFAULT_BIND_MODE, DEFAULT_BIND_MODE, 0) }

\* the key with its argument 'x'
StackKeys == { << 97, 120 >> }

\* the key is bound, it is typed with its argument any number of times, each
\* time input_readch dispatches it, and the consumer pops arguments the
\* stack holds, all while the index is within the array
NextStack ==
    \/ SetUp /\ \E b \in StackBindings : Add(b.seq, b.commands, b.mode, b.sets_mode)
    \/ \E k \in StackKeys : TerminalKey(k)
    \/ input_function_args_index <= MAX_INPUT_FUNCTION_ARGS /\ ReadchCall(TRUE)
    \/ ReadchCode
    \/ ReadchDispatch
    \/ input_function_args_index <= MAX_INPUT_FUNCTION_ARGS /\ PopArg

SpecStack == Init /\ [][NextStack]_vars

\* bindings made by the user before input_init
LifeBindings ==
    { input_mapping_t(<< 97 >>, << "execute" >>,
                      DEFAULT_BIND_MODE, DEFAULT_BIND_MODE, 0),
      input_mapping_t(<< 97, 97 >>, << "complete" >>,
                      DEFAULT_BIND_MODE, DEFAULT_BIND_MODE, 0) }

\* the names looked up: those of the registry and one it does not have
LookupNames == { TinfoNames[i] : i \in 1..Len(TinfoNames) } \cup { "f99" }

\* bindings may be made before the first input_init; input_init and
\* input_destroy are called in any order, under any terminal, and key names
\* are looked up
NextLife ==
    \/ /\ ~is_init /\ terminfo_mappings = << >>
       /\ \E b \in LifeBindings : Add(b.seq, b.commands, b.mode, b.sets_mode)
    \/ \E term \in Terminals \cup {NoTerminal} : InputInit(term)
    \/ InputDestroy
    \/ \E name \in LookupNames, term \in Terminals \cup {NoTerminal} :
           TerminfoGetSequence(name, term)

SpecLife == Init /\ [][NextLife]_vars

\* bindings whose commands mix editor functions and shell commands, in both
\* orders, and a binding that queues the "and" directive
MixedBindings ==
    { input_mapping_t(<< 97 >>, << "exit", "execute" >>,
                      DEFAULT_BIND_MODE, "insert", 0),
      input_mapping_t(<< 97, 97 >>, << "execute", "exit" >>,
                      DEFAULT_BIND_MODE, "insert", 0),
      input_mapping_t(<< 98 >>, << "execute", "and" >>,
                      DEFAULT_BIND_MODE, DEFAULT_BIND_MODE, 0) }

\* the table is set up from MixedBindings, keys arrive, the consumer sets the
\* status, and input_readch is called with commands allowed or not, while the
\* push-back stack is no higher than MaxLookahead
NextMixed ==
    \/ SetUp /\ \E b \in MixedBindings : Add(b.seq, b.commands, b.mode, b.sets_mode)
    \/ \E c \in KeyChars \cup {98} : TerminalInput(c)
    \/ Len(lookahead) <= MaxLookahead /\ \E a \in BOOLEAN : ReadchCall(a)
    \/ \E status \in BOOLEAN : FunctionSetStatus(status)
    \/ ReadchCode
    \/ ReadchAnd
    \/ ReadchDrain
    \/ ReadchDispatch

SpecMixed == Init /\ [][NextMixed]_vars

\* a key bound to a function that takes an argument and a key bound to a
\* chain with the "and" directive
EofBindings ==
    { input_mapping_t(<< 97 >>, << "forward-jump" >>,
                      DEFAULT_BIND_MODE, DEFAULT_BIND_MODE, 0),
      input_mapping_t(<< 98 >>, << "execute", "and", "complete" >>,
                      DEFAULT_BIND_MODE, DEFAULT_BIND_MODE, 0) }

\* what is pushed back from outside: a key, or the end of input the reader
\* has seen on a terminal that stays open
EofUnreadValues == { 97, R_EOF }

\* the table is set up from EofBindings, keys arrive, keys and R_EOF are
\* pushed back, the consumer reports a failed function, and input_readch is
\* called while the argument stack has room
NextEof ==
    \/ SetUp /\ \E b \in EofBindings : Add(b.seq, b.commands, b.mode, b.sets_mode)
    \/ \E c \in {98, 120} : TerminalInput(c)
    \/ \E ch \in EofUnreadValues : Unreadch(ch)
    \/ input_function_args_index + 2 <= MaxArgs /\ ReadchCall(TRUE)
    \/ FunctionSetStatus(FALSE)
    \/ ReadchCode
    \/ ReadchAnd
    \/ ReadchDrain
    \/ ReadchDispatch

SpecEof == Init /\ [][NextEof]_vars

----------------------------------------------------------------------------
(* Helpers of the properties *)

IsPrefix(s, t) == Len(s) <= Len(t) /\ SubSeq(t, 1, Len(s)) = s

Bindings(list) == { list[i] : i \in 1..Len(list) }

\* how many entries of the sequence l equal x
Count(l, x) == Cardinality({ i \in 1..Len(l) : l[i] = x })

\* a and b are the binding of one (sequence, mode) key
SameKey(a, b) == a.seq = b.seq /\ a.mode = b.mode

----------------------------------------------------------------------------
(* The binding table: C3, C4, C5, C8, C9, C10 (checked under Spec) *)

\* C3: in every table state reachable by add and erase, the stored binding
\* list is monotonically non-increasing in sequence length.
C3_SortedByLength ==
    \A i \in 1..(Len(mapping_list) - 1) :
        Len(mapping_list[i].seq) >= Len(mapping_list[i + 1].seq)

\* C4: after any sequence of add and erase, the table holds at most one
\* binding per (sequence, mode), and no two bindings share a
\* specification_order.
C4_UniqueKeysAndOrders ==
    \A i, j \in 1..Len(mapping_list) :
        i # j =>
            /\ ~(mapping_list[i].seq = mapping_list[j].seq
                 /\ mapping_list[i].mode = mapping_list[j].mode)
            /\ mapping_list[i].specification_order # mapping_list[j].specification_order

\* a (sequence, mode) was added again next to two other bindings, one of them
\* sharing its sequence
C4_Witness ==
    /\ last.op = "add" /\ last.existed
    /\ Len(mapping_list) = 3
    /\ \E i \in 1..Len(mapping_list) :
          mapping_list[i].seq = last.seq /\ mapping_list[i].mode # last.mode

C8_ErasePresent ==
    [][ \A s \in Sequences, m \in Modes \cup {NULL} :
          LET hits == { i \in 1..Len(mapping_list) :
                          /\ mapping_list[i].seq = s
                          /\ (m = NULL \/ mapping_list[i].mode = m) }
          IN  ( /\ last'.op = "erase" /\ last'.seq = s /\ last'.mode = m
                /\ Erase(s, m)
                /\ hits # {} )
              => LET first == CHOOSE i \in hits : \A j \in hits : i <= j
                     gone  == mapping_list[first]
                     got   == input_mapping_get(mapping_list', s)
                 IN  /\ last'.result = TRUE
                     /\ Len(mapping_list') = Len(mapping_list) - 1
                     /\ Bindings(mapping_list') = Bindings(mapping_list) \ {gone}
                     /\ \A b \in Bindings(mapping_list') :
                           ~(b.seq = gone.seq /\ b.mode = gone.mode)
                     /\ m # NULL => \A b \in Bindings(mapping_list') :
                                        ~(b.seq = s /\ b.mode = m)
                     /\ got.result => got.out_mode # gone.mode
                     /\ Count(input_mapping_get_names(mapping_list'), s)
                           = Count(input_mapping_get_names(mapping_list), s) - 1 ]_vars

\* a sequence bound in both modes was erased with mode ANY: one binding went,
\* the other and a third binding stayed
C8_Witness ==
    /\ last.op = "erase" /\ last.result /\ last.mode = NULL
    /\ Len(mapping_list) = 2
    /\ \E i \in 1..Len(mapping_list) : mapping_list[i].seq = last.seq

\* C9: erase(s, m) on a table with no binding of sequence s in mode m returns
\* false and leaves the table unchanged.
C9_EraseAbsent ==
    [][ \A s \in Sequences, m \in Modes \cup {NULL} :
          ( /\ last'.op = "erase" /\ last'.seq = s /\ last'.mode = m
            /\ Erase(s, m)
            /\ ~\E i \in 1..Len(mapping_list) :
                   /\ mapping_list[i].seq = s
                   /\ (m = NULL \/ mapping_list[i].mode = m) )
          => /\ last'.result = FALSE
             /\ mapping_list' = mapping_list ]_vars

\* an erase failed on a sequence that is bound in the other mode only
C9_Witness ==
    /\ last.op = "erase" /\ ~last.result /\ last.mode # NULL
    /\ \E i \in 1..Len(mapping_list) : mapping_list[i].seq = last.seq

\* C10: names() lists the sequence of every binding once, by strictly
\* ascending specification_order; adding and erasing keep the relative order
\* of the bindings that stay (names() lists by specification_order, so their
\* order in names() is the order of their stamps), and names() leaves the
\* table as it is.
C10_NamesBySpecificationOrder ==
    /\ [](LET names == input_mapping_get_names(mapping_list)
              rank(i) == 1 + Cardinality({ j \in 1..Len(mapping_list) :
                            mapping_list[j].specification_order
                              < mapping_list[i].specification_order })
          IN  /\ Len(names) = Len(mapping_list)
              /\ \A i \in 1..Len(mapping_list) : names[rank(i)] = mapping_list[i].seq
              /\ \A i, j \in 1..Len(mapping_list) : i # j => rank(i) # rank(j))
    /\ [][ /\ mapping_list' # mapping_list
              => \A i \in 1..Len(mapping_list) : \A k \in 1..Len(mapping_list') :
                   SameKey(mapping_list[i], mapping_list'[k])
                   => \A j \in 1..Len(mapping_list) : \A l \in 1..Len(mapping_list') :
                        SameKey(mapping_list[j], mapping_list'[l])
                        => ((mapping_list[i].specification_order
                               < mapping_list[j].specification_order)
                            <=> (mapping_list'[k].specification_order
                                   < mapping_list'[l].specification_order))
           /\ last'.op = "names" => mapping_list' = mapping_list ]_vars

\* names() ran on a table whose stored order is not the order of insertion
C10_Witness ==
    /\ last.op = "names" /\ last.result = 3
    /\ mapping_list[1].specification_order > mapping_list[2].specification_order
    /\ mapping_list[2].specification_order < mapping_list[3].specification_order

----------------------------------------------------------------------------
(* The matcher: C2 (checked under SpecMatch) *)

\* C2: when input_mapping_is_match fails after reading k >= 1 characters of a
\* stream S (pushed-back characters, then terminal input), the stream is S
\* again when it returns: the next reads deliver the same characters in the
\* same order.
C2_MatcherRestores ==
    (last.op = "is_match" /\ ~last.result /\ last.k >= 1)
    => Stream(lookahead, terminal) = last.before

\* a match failed on its second character, read from the terminal after a
\* pushed-back character
C2_Witness ==
    /\ last.op = "is_match" /\ ~last.result /\ last.k = 2
    /\ Len(last.before) = 3 /\ last.before[1] # last.before[2]
    /\ Len(lookahead) = 2 /\ terminal # << >>

----------------------------------------------------------------------------
(* Matching and dispatch: C1, C6, C7 (checked under SpecRead).  log.disp   *)
(* holds, for the running or the last call of input_readch, every mapping  *)
(* handed to input_mapping_execute, with the bind mode and the stream the  *)
(* scan started from; the table does not change while it is kept.          *)

Dispatches == { log.disp[k] : k \in 1..Len(log.disp) }

IndexOf(list, b) == CHOOSE i \in 1..Len(list) : list[i] = b

\* the mappings of mode md, in table order
ActiveMappings(list, md) == SelectSeq(list, LAMBDA b : b.mode = md)

\* C1: when the table holds two bindings of the active mode with sequences A
\* and A.B (B non-empty), no longer binding of the active mode matches, and
\* the stream starts with A.B, the binding for A.B is dispatched, not the one
\* for A.
C1_LongestMatch ==
    \A e \in Dispatches :
        \A x, y \in Bindings(mapping_list) :
            ( /\ x.mode = e.at_mode /\ y.mode = e.at_mode
              /\ Len(x.seq) < Len(y.seq) /\ IsPrefix(x.seq, y.seq)
              /\ IsPrefix(y.seq, e.stream)
              /\ \A z \in Bindings(mapping_list) :
                    (z.mode = e.at_mode /\ IsPrefix(z.seq, e.stream))
                    => Len(z.seq) <= Len(y.seq) )
            => e.m = y

\* C6: a binding of mode X is never dispatched while the bind mode is Y # X,
\* even when its sequence is a prefix of the stream, and bindings of other
\* modes change nothing of what a scan does: the scan leaves the stream, the
\* bind mode, the status, the arguments and the evaluated commands as it
\* would with the bindings of the active mode alone in the table.
C6_ModeScoping ==
    /\ [](\A e \in Dispatches :
              e.m.mode = e.at_mode /\ e.m \in Bindings(mapping_list))
    /\ [][ LET r == input_common_readch(St, FALSE)
           IN  (pc = "readch" /\ pc' = "readch" /\ ~IsInternal(r.c))
               => [la |-> lookahead', term |-> terminal',
                   closed |-> terminal_closed', mode |-> bind_mode',
                   status |-> input_function_status',
                   args |-> input_function_args',
                   idx |-> input_function_args_index', log |-> log']
                  = input_mapping_execute_matching_or_generic(
                        ActiveMappings(mapping_list, bind_mode),
                        input_unreadch(r.st, r.c), allow_commands) ]_vars

\* a binding of the active mode was dispatched although a binding of another
\* mode that matches the stream is stored before it
C6_Witness ==
    \E e \in Dispatches :
        \E b \in Bindings(mapping_list) :
            /\ b.mode # e.at_mode
            /\ b.seq # << >> /\ IsPrefix(b.seq, e.stream)
            /\ e.m \in Bindings(mapping_list)
            /\ IndexOf(mapping_list, b) < IndexOf(mapping_list, e.m)

\* C7: within one mode a concrete binding whose sequence is a prefix of the
\* input wins over the generic binding, whatever the order of the two in the
\* table: the generic binding is dispatched only when no concrete binding of
\* the active mode matches.
C7_ConcreteBeatsGeneric ==
    \A e \in Dispatches :
        e.m.seq = << >>
        => ~\E b \in Bindings(mapping_list) :
               /\ b.mode = e.at_mode
               /\ b.seq # << >>
               /\ IsPrefix(b.seq, e.stream)

\* a concrete binding was dispatched although the generic binding of its mode
\* is stored before it
C7_Witness ==
    \E e \in Dispatches :
        \E g \in Bindings(mapping_list) :
            /\ e.m \in Bindings(mapping_list)
            /\ e.m.seq # << >>
            /\ g.seq = << >> /\ g.mode = e.at_mode
            /\ IndexOf(mapping_list, g) < IndexOf(mapping_list, e.m)

----------------------------------------------------------------------------
(* Deferral and mode transitions: C11, C12, C16 (checked under SpecCmd) *)

\* the command list is one shell command
IsShellCommand(commands) ==
    Len(commands) = 1 /\ input_function_get_code(commands[1]) = NO_CODE

\* the call of input_readch that has just returned dispatched one binding, at
\* its first scan
ReturnedAfterFirstScan ==
    /\ pc = "idle" /\ last.op = "readch" /\ last.returned
    /\ Len(log.disp) = 1
    /\ log.disp[1].stream = log.start.stream

\* C11: when readch(false) matches a binding whose command is a shell command,
\* it returns R_NULL, evaluates nothing, leaves the bind mode unchanged and
\* leaves the stream as it was before the call (the binding's sequence, then
\* the remaining input); readch(true) on that stream matches the same binding
\* and evaluates the command.
C11_CommandDeferral ==
    ( /\ ReturnedAfterFirstScan /\ ~last.allow
      /\ IsShellCommand(log.disp[1].m.commands) )
    => LET m     == log.disp[1].m
           r     == input_common_readch(St, FALSE)
           again == input_mapping_execute_matching_or_generic(
                        mapping_list, input_unreadch(r.st, r.c), TRUE)
       IN  /\ last.ret = R_NULL
           /\ log.evald = << >>
           /\ bind_mode = log.start.mode
           /\ Stream(lookahead, terminal) = log.start.stream
           /\ IsPrefix(m.seq, Stream(lookahead, terminal))
           /\ ~IsInternal(r.c)
           /\ Len(again.log.disp) = 2 /\ again.log.disp[2].m = m
           /\ again.log.evald = m.commands
           /\ again.la # << >> /\ Head(again.la) = R_NULL

\* a key bound to a command was deferred with another key behind it, the
\* generic binding of the mode being bound to a command too
C11_Witness ==
    /\ ReturnedAfterFirstScan /\ ~last.allow
    /\ IsShellCommand(log.disp[1].m.commands)
    /\ log.disp[1].m.seq = << 97 >>
    /\ log.start.stream = << 97, 98 >>
    /\ \E b \in Bindings(mapping_list) : b.seq = << >> /\ b.mode = bind_mode

\* C12: after every completed dispatch of a binding (all its commands
\* processed, none deferred) the bind mode is that binding's sets_mode, the
\* bindings of a scan are selected by the bind mode the dispatch before it
\* left, and the dispatcher changes the bind mode at no other point.
C12_ModeTransitions ==
    [][ pc = "readch"
        => IF Len(log'.disp) = Len(log.disp) + 1
           THEN LET e == log'.disp[Len(log'.disp)]
                    completed ==
                        \/ allow_commands
                        \/ \A k \in 1..Len(e.m.commands) :
                               input_function_get_code(e.m.commands[k]) # NO_CODE
                IN  /\ e.at_mode = bind_mode /\ e.m.mode = bind_mode
                    /\ bind_mode' = IF completed THEN e.m.sets_mode ELSE bind_mode
           ELSE bind_mode' = bind_mode ]_vars

\* a binding of the mode "insert", a mode only a dispatch leads to, was
\* dispatched and switched back, the table holding a binding of the same key
\* for the mode "default" and commands having been evaluated before
C12_Witness ==
    /\ pc = "idle" /\ last.op = "readch" /\ last.returned
    /\ Len(log.disp) = 1
    /\ log.disp[1].at_mode = "insert" /\ log.disp[1].m.mode = "insert"
    /\ bind_mode = DEFAULT_BIND_MODE
    /\ \E b \in Bindings(mapping_list) :
          /\ b.seq = log.disp[1].m.seq /\ b.mode = DEFAULT_BIND_MODE
          /\ b.sets_mode = "insert"

----------------------------------------------------------------------------
(* The default bindings: C13 (checked under SpecDefault) *)

\* the six bindings of input_init are in the table
DefaultsInstalled ==
    \A i \in 1..Len(DefaultBindings) :
        \E b \in Bindings(mapping_list) :
            /\ b.seq = DefaultBindings[i].seq
            /\ b.commands = << DefaultBindings[i].command >>
            /\ b.mode = DEFAULT_BIND_MODE /\ b.sets_mode = DEFAULT_BIND_MODE

\* some concrete binding of mode md has a sequence the stream starts with
ConcreteMatches(md, stream) ==
    \E b \in Bindings(mapping_list) :
        b.mode = md /\ b.seq # << >> /\ IsPrefix(b.seq, stream)

\* C13: with the default bindings installed and the bind mode default, when
\* the stream starts with an ordinary character c that starts no matching
\* concrete binding, readch(true) returns c, consumes that one character and
\* leaves the rest of the stream in its order, also when a longer binding
\* matched a proper prefix and was backed out.
C13_SelfInsertTransparent ==
    ( /\ pc = "idle" /\ last.op = "readch" /\ last.returned /\ last.allow
      /\ DefaultsInstalled
      /\ log.start.mode = DEFAULT_BIND_MODE
      /\ log.start.stream # << >>
      /\ ~IsInternal(log.start.stream[1])
      /\ ~ConcreteMatches(DEFAULT_BIND_MODE, log.start.stream) )
    => /\ last.ret = log.start.stream[1]
       /\ Stream(lookahead, terminal) = Tail(log.start.stream)

\* ESC [ B came with ESC [ A bound: the binding was backed out after two
\* characters and ESC was returned
C13_Witness ==
    /\ pc = "idle" /\ last.op = "readch" /\ last.returned /\ last.allow
    /\ DefaultsInstalled
    /\ UpLine.seq \in { b.seq : b \in Bindings(mapping_list) }
    /\ log.start.stream = << 27, 91, 66 >>
    /\ last.ret = 27
    /\ lookahead = << 91, 66 >>

----------------------------------------------------------------------------
(* Chains of editor functions: C14, C19 (checked under SpecAnd) *)

\* a code of code_arr that the read loop returns as it is
IsFunctionCode(c) ==
    /\ \E i \in 1..Len(code_arr) : code_arr[i] = c
    /\ c \notin {R_SELF_INSERT, R_AND}

\* the stream s from its first value that is no internal code
RECURSIVE DropInternal(_)
DropInternal(s) ==
    IF s # << >> /\ IsInternal(Head(s)) THEN DropInternal(Tail(s)) ELSE s

\* the call of input_readch has returned and nothing was done since
Returned == pc = "idle" /\ last.op = "readch" /\ last.returned

\* C14: when readch reads R_AND, the function code queued next is returned if
\* and only if the status is true; when the status is false, the internal
\* codes queued after R_AND up to the first non-internal character are
\* discarded, readch returns none of them, and that character is the next
\* one processed.
C14_AndChaining ==
    /\ [](\A k \in 1..Len(log.ands) :
            LET a == log.ands[k]
            IN  /\ a.drained
                   => /\ ~a.status
                      /\ a.resumed = DropInternal(a.after)
                      /\ a.resumed # << >> /\ ~IsInternal(a.resumed[1])
                /\ (~a.status /\ ~a.drained)
                   => pc = "drain" /\ k = Len(log.ands))
    /\ []((Returned /\ log.ands # << >>)
          => LET a == log.ands[Len(log.ands)]
             IN  (a.status /\ a.after # << >> /\ IsFunctionCode(a.after[1]))
                 => /\ last.ret = a.after[1]
                    /\ Stream(lookahead, terminal) = Tail(a.after))
    /\ [][ pc = "drain"
           => /\ last' = last
              /\ pc' \in {"drain", "readch"}
              /\ pc' = "readch"
                 => /\ lookahead' # << >>
                    /\ Head(lookahead') = log'.ands[Len(log'.ands)].resumed[1] ]_vars

\* the status was false when R_AND was read: the code queued behind it was
\* dropped, and the key that followed was processed and dispatched
C14_Witness ==
    /\ Returned
    /\ Len(log.ands) = 1 /\ ~log.ands[1].status /\ log.ands[1].drained
    /\ log.ands[1].after = << input_function_get_code("complete"), 97, 98 >>
    /\ Len(log.disp) = 1 /\ log.disp[1].stream = << 97, 98 >>
    /\ last.ret = R_EXECUTE

\* the codes of the commands of the chain, in the order of the command list
ChainCodes(ch) ==
    [k \in 1..Len(ch.m.commands) |-> input_function_get_code(ch.m.commands[k])]

\* the input that followed the sequence of the chain's binding
ChainRest(ch) == SubSeq(ch.stream, Len(ch.m.seq) + 1, Len(ch.stream))

\* C19: when a matched binding has the command list [f1, ..., fn] of arity-0
\* editor functions other than self-insert and and, the next n readch calls
\* return the codes of f1, ..., fn in that order, and no character of the
\* remaining input is consumed or returned before fn has been delivered.
C19_LeftToRightDelivery ==
    LET ch    == log.chain
        codes == ChainCodes(ch)
        n     == Len(codes)
        d     == Len(ch.rets)
    IN  ( /\ n >= 2
          /\ \A k \in 1..n : /\ IsFunctionCode(codes[k])
                              /\ input_function_arity(codes[k]) = 0 )
        => /\ ch.rets = SubSeq(codes, 1, d)
           /\ d < n => IsPrefix(SubSeq(codes, d + 1, n) \o ChainRest(ch),
                                Stream(lookahead, terminal))
           /\ d = n => IsPrefix(ChainRest(ch), ch.after)

\* both functions of a binding were delivered, in two calls, and the key that
\* followed the binding's sequence is still on the stream
C19_Witness ==
    /\ Returned /\ log.disp = << >>
    /\ log.chain.m.commands = << "execute", "complete" >>
    /\ log.chain.rets = << R_EXECUTE, input_function_get_code("complete") >>
    /\ ChainRest(log.chain) = << 97 >>
    /\ IsPrefix(<< 97 >>, Stream(lookahead, terminal))

----------------------------------------------------------------------------
(* Arguments of editor functions: C15, C20 (checked under SpecArgs) *)

\* C15: whenever readch dispatches a binding whose only command is an arity-1
\* function and a character x follows the binding's sequence on the stream,
\* readch returns the function's code, x is consumed, and function_get_arg(0)
\* then returns x; at every such dispatch, not only at the first one.
C15_ArityCapture ==
    ( /\ ReturnedAfterFirstScan
      /\ Len(log.disp[1].m.commands) = 1
      /\ input_function_arity(input_function_get_code(log.disp[1].m.commands[1])) = 1
      /\ Len(log.disp[1].stream) > Len(log.disp[1].m.seq) )
    => LET e == log.disp[1]
           x == e.stream[Len(e.m.seq) + 1]
       IN  /\ last.ret = input_function_get_code(e.m.commands[1])
           /\ Stream(lookahead, terminal)
                 = SubSeq(e.stream, Len(e.m.seq) + 2, Len(e.stream))
           /\ input_function_get_arg(input_function_args, 0) = x

\* C20: when a matched binding has two arity-1 functions [g1, g2] as commands
\* and the characters c1 c2 follow its sequence on the stream, then, the
\* consumer popping one argument as each function code is delivered, g1
\* (delivered first) receives c1 and g2 (delivered second) receives c2.
C20_ArgumentOrder ==
    LET ch    == log.chain
        codes == ChainCodes(ch)
    IN  ( /\ Len(codes) = 2
          /\ \A k \in 1..2 : input_function_arity(codes[k]) = 1
          /\ Len(ChainRest(ch)) >= 2
          /\ \A k \in 1..Len(ch.pops) : ch.pops[k].after = k )
        => \A k \in 1..Len(ch.pops) : ch.pops[k].value = ChainRest(ch)[k]

----------------------------------------------------------------------------
(* A miss in a mode without generic binding: C16 (checked under SpecCmd) *)

\* no binding of mode md has the empty sequence
NoGeneric(md) ==
    \A b \in Bindings(mapping_list) : b.mode = md => b.seq # << >>

\* what a scan that dispatches nothing leaves alone
ScanDispatchedNothing(st) ==
    /\ st.mode = bind_mode
    /\ st.status = input_function_status
    /\ st.args = input_function_args
    /\ st.idx = input_function_args_index
    /\ st.log.disp = log.disp /\ st.log.evald = log.evald

\* C16: when no concrete binding of the active mode matches and the active
\* mode has no empty-sequence binding, match-or-generic removes exactly one
\* character from the stream and dispatches nothing (no code pushed, no
\* command evaluated, mode unchanged); when that character is R_EOF it stays
\* on the stream and the next pass of readch's loop returns R_EOF.
C16_MissWithoutGeneric ==
    /\ [][ ( /\ pc = "readch"
             /\ ~IsInternal(input_common_readch(St, FALSE).c)
             /\ NoGeneric(bind_mode)
             /\ ~ConcreteMatches(bind_mode, Stream(lookahead, terminal)) )
           => /\ Stream(lookahead, terminal)' = Tail(Stream(lookahead, terminal))
              /\ pc' = "readch"
              /\ bind_mode' = bind_mode
              /\ log'.disp = log.disp /\ log'.evald = log.evald
              /\ input_function_status' = input_function_status
              /\ input_function_args' = input_function_args
              /\ input_function_args_index' = input_function_args_index ]_vars
    /\ [] ( ( /\ pc = "idle"
              /\ input_common_readch(St, FALSE).c = R_EOF
              /\ NoGeneric(bind_mode) )
            => \A allow \in BOOLEAN :
                 LET r == input_mapping_execute_matching_or_generic(
                              mapping_list, St, allow)
                 IN  /\ ScanDispatchedNothing(r)
                     /\ r.la # << >> /\ Head(r.la) = R_EOF
                     /\ Stream(r.la, r.term) = Stream(lookahead, terminal) )

\* in the mode "insert", which has no generic binding, the unbound key 'b'
\* was discarded and the call goes on with what was typed after it
C16_Witness ==
    /\ pc = "readch"
    /\ bind_mode = "insert" /\ NoGeneric("insert")
    /\ log.start.mode = "insert"
    /\ log.start.stream = << 98, 97 >>
    /\ log.disp = << >>
    /\ Stream(lookahead, terminal) = << 97 >>

----------------------------------------------------------------------------
(* Lifecycle and the terminfo registry: C17, C18 (checked under SpecLife) *)

\* the sequences the registry stores under a name
Entries(name) ==
    { terminfo_mappings[i].seq :
        i \in { j \in 1..Len(terminfo_mappings) : terminfo_mappings[j].name = name } }

\* C17: sequence_of(name) fails with ENOENT when the name is not in the
\* registry, fails with EILSEQ when the name is in the registry and its byte
\* sequence is absent, and succeeds with the stored sequence otherwise (an
\* empty stored sequence included); a failure does not write the output.
C17_TerminfoSequence ==
    last.op = "terminfo"
    => LET E       == Entries(last.name)
           notfound == /\ ~last.result /\ last.errno = << ENOENT >>
                       /\ last.out_seq = << >>
           absent   == /\ ~last.result /\ last.errno = << EILSEQ >>
                       /\ last.out_seq = << >>
           stored   == /\ last.result /\ last.errno = << >>
                       /\ \E e \in E : /\ ~e.null
                                       /\ last.out_seq = << e.bytes >>
       IN  /\ E = {} => notfound
           /\ (E # {} /\ \A e \in E : e.null) => absent
           /\ (E # {} /\ \A e \in E : ~e.null) => stored
           /\ E # {} => (absent /\ \E e \in E : e.null) \/ stored

\* a key the terminal lacks was looked up: the name is in the registry and
\* the lookup failed with EILSEQ
C17_Witness ==
    /\ last.op = "terminfo"
    /\ last.name = "a1" /\ Entries("a1") = { NullString }
    /\ ~last.result /\ last.errno = << EILSEQ >>
    /\ is_init

\* the table holds a binding the user made
UserBound ==
    \E b \in Bindings(mapping_list), u \in LifeBindings : SameKey(b, u)

\* C18: after any sequence of init() and destroy() calls that starts from an
\* empty binding table and ends initialized, the binding table holds exactly
\* the six default bindings once each and the terminfo registry holds each
\* symbolic key name exactly once, as after a single init(); and when the
\* table is non-empty at init, init adds no binding.
C18_InitDestroyIdempotent ==
    /\ [] ( (is_init /\ pc # "exited" /\ ~UserBound)
            => /\ Len(mapping_list) = Len(DefaultBindings)
               /\ DefaultsInstalled
               /\ \A i \in 1..Len(TinfoNames) :
                     Count([j \in 1..Len(terminfo_mappings)
                               |-> terminfo_mappings[j].name],
                           TinfoNames[i]) = 1 )
    /\ [][ (mapping_list # << >> /\ last'.op \in {"init", "terminfo"})
           => mapping_list' = mapping_list ]_vars

----------------------------------------------------------------------------
(* Commands that are not allowed: C21, C23 (checked under SpecMixed) *)

\* the command list has an editor function and a shell command
IsMixed(commands) ==
    /\ \E i \in 1..Len(commands) : input_function_get_code(commands[i]) # NO_CODE
    /\ \E i \in 1..Len(commands) : input_function_get_code(commands[i]) = NO_CODE

\* C21: when allow_commands is false and the matched binding's command list
\* mixes editor functions and shell commands, in any order, the aborted
\* dispatch leaves the stream as R_NULL, then the binding's sequence, then the
\* input that followed the sequence before the match, with no function code
\* on the stream, and the mode unchanged.
C21_MixedAbort ==
    ( /\ pc = "readch" /\ ~allow_commands
      /\ Len(log.disp) = 1
      /\ IsMixed(log.disp[1].m.commands) )
    => /\ Stream(lookahead, terminal) = << R_NULL >> \o log.disp[1].stream
       /\ bind_mode = log.disp[1].at_mode

\* C23: a call readch(false) never evaluates a shell command, its re-entries
\* after an R_AND directive included: from its entry to its return no command
\* is given to the evaluator.
C23_NoEvalWhenDisallowed ==
    (last.op = "readch" /\ ~last.allow) => log.evald = << >>

----------------------------------------------------------------------------
(* The end of input: C22 (checked under SpecEof) *)

\* C22: R_EOF is never swallowed: when the reader has delivered R_EOF to a
\* read made during a readch call (by the read loop, the matcher, the arity
\* capture, the discard without generic, or the drain after R_AND), the call
\* returns R_EOF or R_EOF is the next value on the stream when it returns.
C22_EofNeverSwallowed ==
    (pc = "idle" /\ last.op = "readch" /\ last.returned /\ log.eof)
    => \/ last.ret = R_EOF
       \/ input_common_readch(St, FALSE).c = R_EOF

----------------------------------------------------------------------------
(* Termination of input_readch: C24 (checked under SpecLive) *)

\* C24: readch terminates: with a table whose bindings all have non-empty
\* lists of editor functions, for every status value and every finite input
\* after which the reader delivers R_EOF, each call of readch returns after
\* finitely many reads.
C24_ReadchTerminates == (pc \in {"readch", "drain"}) ~> (pc = "idle")

----------------------------------------------------------------------------
(* The bounds of the argument stack: C25 (checked under SpecStack) *)

\* C25: in every state reachable by dispatches of bindings to arity-1
\* functions and argument pops, the index of the argument stack stays within
\* 0..MAX_INPUT_FUNCTION_ARGS: no push writes at index 20 or beyond and no
\* pop reads below index 0.
C25_ArgStackBounded ==
    LET r  == input_common_readch(St, FALSE)
        st == input_mapping_execute_matching_or_generic(
                  mapping_list, input_unreadch(r.st, r.c), allow_commands)
    IN  /\ input_function_args_index \in 0..MAX_INPUT_FUNCTION_ARGS
        /\ (pc = "readch" /\ ~IsInternal(r.c))
           => st.idx <= MAX_INPUT_FUNCTION_ARGS

====
